---- MODULE Spec2Model ----
(***************************************************************************)
(* crop-doctor-ai: the analysis request pipeline.                          *)
(*                                                                         *)
(*   - the Analysis Gateway, the edge function detect-crop-defects         *)
(*     (src/supabase/functions/detect-crop-defects/index.ts);              *)
(*   - the Result Store, the table public.crop_detections                  *)
(*     (src/supabase/migrations/2025...sql) and the history query;         *)
(*   - the page component Index (src/unnamed/part_000): image intake,      *)
(*     handleAnalyze, Clear.                                               *)
(*                                                                         *)
(* Numbers with a fractional part (confidence_score) are integers in       *)
(* thousandths: 85.5 is 85500.                                             *)
(***************************************************************************)
EXTENDS Integers, Sequences, FiniteSets, TLC

VARIABLES
    gwPc,        \* position of the edge function's handler: idle, fetching, done
    gwReq,       \* the request being served
    gwKey,       \* Deno.env LOVABLE_API_KEY
    gwFetches,   \* the requests this invocation has sent to the provider
    gwReply,     \* what the awaited fetch produced
    gwResp       \* the Response the handler returned

VARIABLES
    table,       \* the rows of public.crop_detections
    now,         \* the database server's clock, now()
    stCall,      \* per client of the store: its insert call, in flight or answered
    qResult,     \* the rows the last history query returned
    qLimit       \* and the limit it asked for

VARIABLES
    selectedImage,  \* useState: the data URL of the chosen image, or null
    isAnalyzing,    \* useState
    analysis,       \* useState: the analysis on display, or null
    toast,          \* the title of the last toast shown
    history,        \* useQuery: the data of the history query
    histPending,    \* useQuery: a fetch of the history is under way
    readers,        \* the files whose FileReader has not fired onloadend yet
    intake,         \* the last call of handleImageSelect or handleDrop
    anPc,           \* position of handleAnalyze: idle, invoking, inserting
    anImage,        \* handleAnalyze: the image it sent
    anData          \* handleAnalyze: the data the invoke gave

gwVars == <<gwPc, gwReq, gwKey, gwFetches, gwReply, gwResp>>

stVars == <<table, now, stCall, qResult, qLimit>>

shVars == <<selectedImage, isAnalyzing, analysis, toast, history, histPending,
            readers, intake, anPc, anImage, anData>>

vars == <<gwPc, gwReq, gwKey, gwFetches, gwReply, gwResp,
          table, now, stCall, qResult, qLimit,
          selectedImage, isAnalyzing, analysis, toast, history, histPending,
          readers, intake, anPc, anImage, anData>>

(***************************************************************************)
(* JavaScript values                                                       *)
(***************************************************************************)
\* undefined / null / a missing property, where the value is a string
Undefined == "undefined"

\* JavaScript's !x for the string-or-undefined values of the model
Falsy(x) == x = Undefined \/ x = ""

\* messages of the errors the runtime throws
MsgSyntaxError == "SyntaxError: not valid JSON"
MsgTypeError == "TypeError: cannot read properties of null or undefined"
MsgFetchFailed == "TypeError: error sending request"

(***************************************************************************)
(* The Analysis Gateway                                                    *)
(***************************************************************************)
Images == {"data:image/png;base64,AAAA", "data:image/jpeg;base64,BBBB"}

\* the body of a request to the edge function, as req.json() sees it
RequestBodies ==
    {[kind |-> "invalid"], [kind |-> "null"]}
        \cup {[kind |-> "object", image |-> i] : i \in Images \cup {Undefined, ""}}

Requests == [method : {"OPTIONS", "POST"}, body : RequestBodies]

KeyValues == {Undefined, "", "sk-key"}

\* the tool schema sent to the provider
CropTypes == {"Wheat", "Rice", "Corn", "Tomato", "Potato"}
Severities == {"Low", "Medium", "High", "Critical"}
ConfidenceMin == 0
ConfidenceMax == 100
RequiredFields == {"crop_type", "defects", "severity", "confidence_score", "recommendations"}

\* Response objects
JsonResponse(status, value) == [status |-> status, body |-> [kind |-> "json", value |-> value]]
ErrorResponse(status, msg) == [status |-> status, body |-> [kind |-> "error", error |-> msg]]
PreflightResponse == [status |-> 200, body |-> [kind |-> "empty"]]
NoResponse == [status |-> 0, body |-> [kind |-> "none"]]

\* the catch block: every thrown error becomes a 500 carrying its message
Catch(msg) == ErrorResponse(500, msg)

NoReply == [kind |-> "none"]
NoRequest == [method |-> "none", body |-> [kind |-> "none"]]

ProviderUrl == "https://ai.gateway.lovable.dev/v1/chat/completions"

\* what the handler has done when it first suspends or returns: the
\* preflight answer, the input and credential checks, the fetch
ServeUntilFetch(req, key) ==
    IF req.method = "OPTIONS"
    THEN [pc |-> "done", resp |-> PreflightResponse, fetches |-> <<>>]
    ELSE IF req.body.kind = "invalid"
    THEN [pc |-> "done", resp |-> Catch(MsgSyntaxError), fetches |-> <<>>]
    ELSE IF req.body.kind = "null"
    THEN [pc |-> "done", resp |-> Catch(MsgTypeError), fetches |-> <<>>]
    ELSE IF Falsy(req.body.image)
    THEN [pc |-> "done", resp |-> Catch("Image is required"), fetches |-> <<>>]
    ELSE IF Falsy(key)
    THEN [pc |-> "done", resp |-> Catch("LOVABLE_API_KEY is not configured"),
          fetches |-> <<>>]
    ELSE [pc |-> "fetching", resp |-> NoResponse,
          fetches |-> <<[url |-> ProviderUrl, bearer |-> key, image |-> req.body.image]>>]

\* response.ok
Ok(status) == status >= 200 /\ status <= 299

\* the status mapping without its 402 branch
NonOkResponse_No402(status) ==
    IF status = 429
    THEN ErrorResponse(429, "Rate limit exceeded. Please try again later.")
    ELSE Catch("Failed to analyze image")

\* if (!response.ok) { ... }
NonOkResponse(status) ==
    IF status = 429
    THEN ErrorResponse(429, "Rate limit exceeded. Please try again later.")
    ELSE IF status = 402
    THEN ErrorResponse(402, "Payment required. Please add credits to your workspace.")
    ELSE Catch("Failed to analyze image")

\* JSON.parse of a string: a value, or a SyntaxError (undefined is no JSON text)
JsonParse(text) ==
    IF text.kind = "json" THEN [ok |-> TRUE, value |-> text.value] ELSE [ok |-> FALSE]

\* const analysis = JSON.parse(toolCall.function.arguments); return Response(analysis)
ToolCallResponse(toolCall) ==
    IF toolCall.kind = "nofunction"
    THEN Catch(MsgTypeError)
    ELSE LET parsed == JsonParse(toolCall.arguments) IN
         IF parsed.ok THEN JsonResponse(200, parsed.value) ELSE Catch(MsgSyntaxError)

\* the normalisation without its if (!toolCall) check: the property access
\* on undefined throws instead
Normalize_NoToolCallCheck(body) ==
    IF body.kind = "invalid"
    THEN Catch(MsgSyntaxError)
    ELSE IF body.kind = "null" \/ body.toolCall.kind = "none"
    THEN Catch(MsgTypeError)
    ELSE ToolCallResponse(body.toolCall)

\* data.choices?.[0]?.message?.tool_calls?.[0] and the check on it
Normalize(body) ==
    IF body.kind = "invalid"
    THEN Catch(MsgSyntaxError)
    ELSE IF body.kind = "null"
    THEN Catch(MsgTypeError)
    ELSE IF body.toolCall.kind = "none"
    THEN Catch("No analysis result from AI")
    ELSE ToolCallResponse(body.toolCall)

\* the handler from the fetch's completion to its return
ReplyResponse(reply) ==
    IF reply.kind = "rejected"
    THEN Catch(MsgFetchFailed)
    ELSE IF ~Ok(reply.status)
    THEN NonOkResponse(reply.status)
    ELSE Normalize(reply.body)

(***************************************************************************)
(* What the provider may answer                                            *)
(***************************************************************************)
Statuses == {200, 201, 400, 402, 429, 500, 503}

Defect == [name |-> "Early Blight", description |-> "dark spots", affected_area |-> "30%"]

\* tool arguments with every field, conforming or not
FullPayloads ==
    [crop_type : {"Wheat", "Potato", "Banana"},
     defects : {<<>>, <<Defect>>},
     severity : {"Low", "Critical", "Severe"},
     confidence_score : {-500, 0, 85500, 85555, 100000, 150000},
     recommendations : {"Remove affected leaves"}]

Restrict(f, S) == [k \in S |-> f[k]]

\* the same with one field, or all of them, missing
Payloads ==
    {Restrict(p, S) : p \in FullPayloads,
                      S \in {RequiredFields} \cup {RequiredFields \ {f} : f \in RequiredFields}
                            \cup {{}}}

ArgumentTexts ==
    {[kind |-> "undefined"], [kind |-> "invalid"]}
        \cup {[kind |-> "json", value |-> v] : v \in Payloads}

ToolCalls ==
    {[kind |-> "none"], [kind |-> "nofunction"]}
        \cup {[kind |-> "call", arguments |-> a] : a \in ArgumentTexts}

OkBodies ==
    {[kind |-> "invalid"], [kind |-> "null"]}
        \cup {[kind |-> "json", toolCall |-> t] : t \in ToolCalls}

ProviderReplies ==
    {[kind |-> "rejected"]}
        \cup {[kind |-> "http", status |-> s, body |-> [kind |-> "text"]] :
                  s \in {s \in Statuses : ~Ok(s)}}
        \cup {[kind |-> "http", status |-> s, body |-> b] :
                  s \in {s \in Statuses : Ok(s)}, b \in OkBodies}

(***************************************************************************)
(* The handler as a process                                                *)
(***************************************************************************)
GwInit ==
    /\ gwPc = "idle"
    /\ gwReq = NoRequest
    /\ gwKey \in KeyValues
    /\ gwFetches = <<>>
    /\ gwReply = NoReply
    /\ gwResp = NoResponse

\* a request arrives: serve(async (req) => ...) runs to the await of fetch,
\* or to its return
GwServe ==
    /\ gwPc = "idle"
    /\ \E req \in Requests :
        LET r == ServeUntilFetch(req, gwKey) IN
        /\ gwReq' = req
        /\ gwPc' = r.pc
        /\ gwResp' = r.resp
        /\ gwFetches' = r.fetches
    /\ gwReply' = NoReply
    /\ UNCHANGED gwKey
    /\ UNCHANGED <<stVars, shVars>>

\* the handler with a retry loop around the fetch on a 429
GwFetchReturns_Retry429 ==
    /\ gwPc = "fetching"
    /\ \E reply \in ProviderReplies :
        /\ gwReply' = reply
        /\ IF reply.kind = "http" /\ reply.status = 429
           THEN /\ gwFetches' = Append(gwFetches, gwFetches[1])
                /\ gwPc' = "fetching"
                /\ gwResp' = gwResp
           ELSE /\ gwFetches' = gwFetches
                /\ gwPc' = "done"
                /\ gwResp' = ReplyResponse(reply)
    /\ UNCHANGED <<gwReq, gwKey>>
    /\ UNCHANGED <<stVars, shVars>>

\* the fetch completes and the handler runs to its return
GwFetchReturns ==
    /\ gwPc = "fetching"
    /\ \E reply \in ProviderReplies :
        /\ gwReply' = reply
        /\ gwResp' = ReplyResponse(reply)
    /\ gwPc' = "done"
    /\ UNCHANGED <<gwReq, gwKey, gwFetches>>
    /\ UNCHANGED <<stVars, shVars>>

\* the invocation is over; the function holds nothing across requests
GwEnd ==
    /\ gwPc = "done"
    /\ gwPc' = "idle"
    /\ gwReq' = NoRequest
    /\ gwFetches' = <<>>
    /\ gwReply' = NoReply
    /\ gwResp' = NoResponse
    /\ UNCHANGED gwKey
    /\ UNCHANGED <<stVars, shVars>>

GwNext == GwServe \/ GwFetchReturns \/ GwEnd

(***************************************************************************)
(* The gateway's results, as its caller can tell them apart: the status    *)
(* and the message of the response                                         *)
(***************************************************************************)
IsSuccess(resp) == resp.body.kind = "json" /\ Ok(resp.status)

IsFailure(resp) == resp.body.kind = "error" /\ ~Ok(resp.status)

ErrorKind(resp) ==
    IF ~IsFailure(resp) THEN "none"
    ELSE IF resp.status = 429 THEN "RateLimitError"
    ELSE IF resp.status = 402 THEN "QuotaError"
    ELSE IF resp.body.error = "Image is required" THEN "ValidationError"
    ELSE IF resp.body.error = "LOVABLE_API_KEY is not configured" THEN "ConfigError"
    ELSE IF resp.body.error = "Failed to analyze image" THEN "UpstreamError"
    ELSE IF resp.body.error = "No analysis result from AI" THEN "EmptyResultError"
    ELSE "RuntimeError"

\* an AnalysisResult of the declared schema (confidence in thousandths)
ValidResult(v) ==
    /\ RequiredFields \subseteq DOMAIN v
    /\ v.crop_type \in CropTypes
    /\ v.severity \in Severities
    /\ v.confidence_score >= ConfidenceMin * 1000
    /\ v.confidence_score <= ConfidenceMax * 1000

\* the provider answered with a success status
AnsweredOk == gwPc = "done" /\ gwReply.kind = "http" /\ Ok(gwReply.status)

\* ... and its body holds a tool invocation
HasToolCall ==
    /\ AnsweredOk
    /\ gwReply.body.kind = "json"
    /\ gwReply.body.toolCall.kind # "none"

\* ... whose arguments are an AnalysisResult of the schema
ConformantToolCall ==
    /\ HasToolCall
    /\ gwReply.body.toolCall.kind = "call"
    /\ gwReply.body.toolCall.arguments.kind = "json"
    /\ ValidResult(gwReply.body.toolCall.arguments.value)

\* C1: when the provider answers with a success status and a tool
\* invocation, analyze succeeds only if the arguments hold all five fields
\* with crop type, severity and confidence inside the schema; any other
\* payload makes it fail (here: with any error response at all).
C1_SuccessOnlyIfConformant ==
    HasToolCall =>
        /\ IsSuccess(gwResp) => (ConformantToolCall /\ ValidResult(gwResp.body.value))
        /\ ~ConformantToolCall => IsFailure(gwResp)

\* C2: a non-success provider status decides the failure kind: 429 is
\* RateLimitError, 402 is QuotaError, every other one UpstreamError; none is
\* a success.
C2_StatusMapping ==
    (gwPc = "done" /\ gwReply.kind = "http" /\ ~Ok(gwReply.status)) =>
        /\ IsFailure(gwResp)
        /\ ErrorKind(gwResp) =
              IF gwReply.status = 429 THEN "RateLimitError"
              ELSE IF gwReply.status = 402 THEN "QuotaError"
              ELSE "UpstreamError"
        /\ gwResp.status = IF gwReply.status \in {429, 402} THEN gwReply.status ELSE 500

C2_Witness ==
    /\ gwPc = "done"
    /\ gwReply.kind = "http"
    /\ gwReply.status = 402
    /\ ErrorKind(gwResp) = "QuotaError"

\* C3: with the provider credential absent, every analyze call (here: every
\* POST whose body is a JSON object) fails with ConfigError, whatever else
\* is wrong with the request, and nothing is sent to the provider.
C3_ConfigErrorFirst ==
    (gwReq.method = "POST" /\ gwReq.body.kind = "object" /\ Falsy(gwKey)) =>
        /\ gwFetches = <<>>
        /\ gwPc = "done" => ErrorKind(gwResp) = "ConfigError"

\* a success-status answer whose body holds no tool invocation
NoToolInvocation ==
    /\ AnsweredOk
    /\ ~HasToolCall

C5_SingleAttempt ==
    /\ Len(gwFetches) <= 1
    /\ gwPc = "idle" => gwFetches = <<>>
    /\ gwPc = "fetching" => (Len(gwFetches) = 1 /\ gwReply = NoReply)
    /\ gwReply # NoReply => (gwPc = "done" /\ Len(gwFetches) = 1)
    /\ (gwPc = "done" /\ ErrorKind(gwResp) \in {"ValidationError", "ConfigError"})
          => gwFetches = <<>>

C5_Witness ==
    /\ gwPc = "done"
    /\ gwReply.kind = "http"
    /\ gwReply.status = 429
    /\ Len(gwFetches) = 1

(***************************************************************************)
(* The Result Store: public.crop_detections                                *)
(***************************************************************************)
\* the values gen_random_uuid() may draw
UUIDs == {"u1", "u2", "u3"}

\* bounds of the model: how far the clock runs, how many rows are inserted
MaxTime == 1
MaxRows == 2

Clients == {"c1", "c2"}

\* confidence_score DECIMAL(5, 2)
NumericPrecision == 5
NumericScale == 2

\* the columns declared NOT NULL that have no DEFAULT
NotNullColumns == {"crop_type", "defects", "severity", "confidence_score"}

\* the coercion cutting the third fractional digit off instead of rounding
RoundToScale_Truncate(milli) ==
    LET unit == 10 ^ (3 - NumericScale) IN
    IF milli >= 0 THEN milli \div unit ELSE -((0 - milli) \div unit)

\* a number (in thousandths) coerced to DECIMAL(5, 2), in hundredths:
\* rounded to two fractional digits, ties away from zero
RoundToScale(milli) ==
    LET unit == 10 ^ (3 - NumericScale) IN
    IF milli >= 0 THEN (milli + unit \div 2) \div unit
    ELSE -((unit \div 2 - milli) \div unit)

\* the rounded value fits precision 5: fewer than 10^3 before the point
FitsPrecision(centi) ==
    /\ centi < 10 ^ NumericPrecision
    /\ centi > -(10 ^ NumericPrecision)

\* the columns of the table; a column that is NULL in a row is no field of
\* the row's record
Columns ==
    {"id", "crop_type", "defects", "severity", "confidence_score", "image_url",
     "created_at"}

\* the row an INSERT of the payload's columns makes: id and created_at take
\* their defaults, every column not given is NULL
NewRow(payload, id, ts) ==
    [c \in ((DOMAIN payload) \cap Columns) \cup {"id", "created_at"} |->
        IF c = "id" THEN id
        ELSE IF c = "created_at" THEN ts
        ELSE IF c = "confidence_score" THEN RoundToScale(payload[c])
        ELSE payload[c]]

\* INSERT without the primary key's uniqueness
ExecInsert_NoPrimaryKey(rows, payload, id, ts) ==
    IF "confidence_score" \in DOMAIN payload
           /\ ~FitsPrecision(RoundToScale(payload.confidence_score))
    THEN [code |-> "22003", rows |-> rows]
    ELSE IF ~(NotNullColumns \subseteq DOMAIN payload)
    THEN [code |-> "23502", rows |-> rows]
    ELSE [code |-> "ok", rows |-> rows \cup {NewRow(payload, id, ts)}]

\* INSERT INTO crop_detections (the columns of the payload), id and
\* created_at taking their defaults: the coercion to DECIMAL(5, 2), the NOT
\* NULL constraints, the primary key
ExecInsert(rows, payload, id, ts) ==
    IF "confidence_score" \in DOMAIN payload
           /\ ~FitsPrecision(RoundToScale(payload.confidence_score))
    THEN [code |-> "22003", rows |-> rows]
    ELSE IF ~(NotNullColumns \subseteq DOMAIN payload)
    THEN [code |-> "23502", rows |-> rows]
    ELSE IF \E r \in rows : r.id = id
    THEN [code |-> "23505", rows |-> rows]
    ELSE [code |-> "ok", rows |-> rows \cup {NewRow(payload, id, ts)}]

\* every order in which the rows of a set can be listed
RECURSIVE Listings(_)
Listings(rows) ==
    IF rows = {} THEN {<<>>}
    ELSE UNION {{<<r>> \o s : s \in Listings(rows \ {r})} : r \in rows}

\* ORDER BY created_at ASC
OrderByCreatedAt_Ascending(rows) ==
    {s \in Listings(rows) :
        \A i \in 1..Len(s), j \in 1..Len(s) : i < j => s[i].created_at <= s[j].created_at}

\* ORDER BY created_at DESC: the order among equal created_at is not fixed
OrderByCreatedAt(rows) ==
    {s \in Listings(rows) :
        \A i \in 1..Len(s), j \in 1..Len(s) : i < j => s[i].created_at >= s[j].created_at}

\* LIMIT k
Limit(s, k) == SubSeq(s, 1, IF k < Len(s) THEN k ELSE Len(s))

\* select * from crop_detections order by created_at desc limit k: the
\* results the query may give
ListRecent(rows, k) == {Limit(s, k) : s \in OrderByCreatedAt(rows)}

\* the limit of the page's history query
QueryLimit == 10

Limits == {1, QueryLimit}

\* what the store's clients send: an insert's columns, some possibly missing
StoreValues ==
    {[crop_type |-> "Tomato", defects |-> <<Defect>>, severity |-> "High",
      confidence_score |-> 92500],
     [crop_type |-> "Wheat", defects |-> <<>>, severity |-> "Low",
      confidence_score |-> 85555]}

StorePayloads ==
    StoreValues
        \cup {Restrict(p, NotNullColumns \ {"severity"}) :
                 p \in {v \in StoreValues : v.crop_type = "Tomato"}}

\* row level security with every command given a permissive policy
Policies_AllCommands == {"SELECT", "INSERT", "UPDATE", "DELETE"}

\* ENABLE ROW LEVEL SECURITY and the policies created: FOR SELECT USING
\* (true), FOR INSERT WITH CHECK (true), and none for another command
Policies == {"SELECT", "INSERT"}

\* the rows a command of a client may touch: all of them under a policy with
\* (true), none when the command has no policy
PolicyRows(cmd, rows) == IF cmd \in Policies THEN rows ELSE {}

\* what a client may try to write into existing rows
Patches == {[severity |-> "Low", defects |-> <<>>]}

\* the ids a client's filter may name: one row's, or every row's
Filters == {{"u1"}, UUIDs}

\* UPDATE crop_detections SET (the patch) WHERE id IN ids, as a client
ExecUpdate(rows, ids, patch) ==
    LET hit == {r \in PolicyRows("UPDATE", rows) : r.id \in ids} IN
    [count |-> Cardinality(hit),
     rows |-> (rows \ hit)
                  \cup {[c \in DOMAIN r |->
                            IF c \in DOMAIN patch THEN patch[c] ELSE r[c]] :
                        r \in hit}]

\* DELETE FROM crop_detections WHERE id IN ids, as a client
ExecDelete(rows, ids) ==
    LET hit == {r \in PolicyRows("DELETE", rows) : r.id \in ids} IN
    [count |-> Cardinality(hit), rows |-> rows \ hit]

NoCall == [kind |-> "idle"]

StInit ==
    /\ table = {}
    /\ now = 0
    /\ stCall = [c \in Clients |-> NoCall]
    /\ qResult = <<>>
    /\ qLimit = 0

\* the clock advances
Tick ==
    /\ now < MaxTime
    /\ now' = now + 1
    /\ UNCHANGED <<table, stCall, qResult, qLimit>>
    /\ UNCHANGED <<gwVars, shVars>>

\* supabase.from("crop_detections").insert({...}): the request leaves
InsertCall(c) ==
    /\ stCall[c].kind # "pending"
    /\ \E p \in StorePayloads :
        stCall' = [stCall EXCEPT ![c] = [kind |-> "pending", payload |-> p]]
    /\ UNCHANGED <<table, now, qResult, qLimit>>
    /\ UNCHANGED <<gwVars, shVars>>

\* the database runs the INSERT, one statement and one transaction, and
\* answers
InsertExec(c) ==
    /\ stCall[c].kind = "pending"
    /\ Cardinality(table) < MaxRows
    /\ \E id \in UUIDs :
        LET r == IF "INSERT" \in Policies
                 THEN ExecInsert(table, stCall[c].payload, id, now)
                 ELSE [code |-> "42501", rows |-> table] IN
        /\ table' = r.rows
        /\ stCall' = [stCall EXCEPT ![c] =
                         [kind |-> "answered", code |-> r.code]]
    /\ UNCHANGED <<now, qResult, qLimit>>
    /\ UNCHANGED <<gwVars, shVars>>

\* the history query runs
Select ==
    /\ \E k \in Limits :
        /\ qLimit' = k
        /\ qResult' \in ListRecent(PolicyRows("SELECT", table), k)
    /\ UNCHANGED <<table, now, stCall>>
    /\ UNCHANGED <<gwVars, shVars>>

\* a client sends an UPDATE through the API and the database runs it
UpdateCall(c) ==
    /\ stCall[c].kind # "pending"
    /\ \E ids \in Filters, patch \in Patches :
        LET r == ExecUpdate(table, ids, patch) IN
        /\ table' = r.rows
        /\ stCall' = [stCall EXCEPT ![c] =
                         [kind |-> "updated", count |-> r.count]]
    /\ UNCHANGED <<now, qResult, qLimit>>
    /\ UNCHANGED <<gwVars, shVars>>

\* a client sends a DELETE through the API and the database runs it
DeleteCall(c) ==
    /\ stCall[c].kind # "pending"
    /\ \E ids \in Filters :
        LET r == ExecDelete(table, ids) IN
        /\ table' = r.rows
        /\ stCall' = [stCall EXCEPT ![c] =
                         [kind |-> "deleted", count |-> r.count]]
    /\ UNCHANGED <<now, qResult, qLimit>>
    /\ UNCHANGED <<gwVars, shVars>>

StNext ==
    \/ Tick
    \/ \E c \in Clients : InsertCall(c)
    \/ \E c \in Clients : InsertExec(c)
    \/ \E c \in Clients : UpdateCall(c)
    \/ \E c \in Clients : DeleteCall(c)
    \/ Select

GwIdle ==
    /\ gwPc = "idle"
    /\ gwReq = NoRequest
    /\ gwFetches = <<>>
    /\ gwReply = NoReply
    /\ gwResp = NoResponse

(***************************************************************************)
(* The page: image intake, handleAnalyze, Clear, the history query         *)
(***************************************************************************)
Null == "null"

NoAnalysis == [null |-> TRUE]

\* file.size > 10 * 1024 * 1024
MaxFileSize == 10 * 1024 * 1024

\* the files a user may pick or drop; base64 stands for the file's bytes
Files ==
    {[name |-> "field.jpg", type |-> "image/jpeg", size |-> MaxFileSize,
      base64 |-> "/9j/4AAQSkZJRg=="],
     [name |-> "big.png", type |-> "image/png", size |-> MaxFileSize + 1,
      base64 |-> "iVBORw0KGgoAAAAN"],
     [name |-> "notes.txt", type |-> "text/plain", size |-> 12, base64 |-> "aGVsbG8gd29ybGQh"],
     [name |-> "scan.pdf", type |-> "application/pdf", size |-> MaxFileSize + 1,
      base64 |-> "JVBERi0xLjQK"]}

NoFile == [name |-> "none"]

\* bounds of the model: how many FileReaders run at once, how many rows the
\* page inserts
MaxReaders == 1
MaxPageRows == 1

\* file.type.startsWith("image/")
IsImageType(type) == type \in {"image/png", "image/jpeg"}

\* reader.readAsDataURL(file): reader.result once the read has succeeded
DataUrl(f) == "data:" \o f.type \o ";base64," \o f.base64

\* the size check with >= for >
TooLarge_Inclusive(f) == f.size >= MaxFileSize

\* if (file.size > 10 * 1024 * 1024)
TooLarge(f) == f.size > MaxFileSize

NoIntake == [via |-> "none", file |-> NoFile, result |-> "none"]

\* the body shared by handleImageSelect and handleDrop, from the size check on
CheckAndRead(via, f) ==
    /\ Cardinality(readers \cup {f}) <= MaxReaders
    /\ IF TooLarge(f)
       THEN /\ toast' = "File too large"
            /\ intake' = [via |-> via, file |-> f, result |-> "too_large"]
            /\ UNCHANGED readers
       ELSE /\ readers' = readers \cup {f}
            /\ intake' = [via |-> via, file |-> f, result |-> "reading"]
            /\ UNCHANGED toast

\* handleImageSelect: the file input's onChange
HandleImageSelect ==
    /\ \E f \in Files \cup {NoFile} :
        IF f = NoFile
        THEN /\ intake' = [via |-> "input", file |-> f, result |-> "ignored"]
             /\ UNCHANGED <<toast, readers>>
        ELSE CheckAndRead("input", f)
    /\ UNCHANGED <<selectedImage, isAnalyzing, analysis, history, histPending,
                   anPc, anImage, anData>>
    /\ UNCHANGED <<gwVars, stVars>>

\* handleDrop: the drop zone's onDrop
HandleDrop ==
    /\ \E f \in Files \cup {NoFile} :
        IF f = NoFile \/ ~IsImageType(f.type)
        THEN /\ intake' = [via |-> "drop", file |-> f, result |-> "ignored"]
             /\ UNCHANGED <<toast, readers>>
        ELSE CheckAndRead("drop", f)
    /\ UNCHANGED <<selectedImage, isAnalyzing, analysis, history, histPending,
                   anPc, anImage, anData>>
    /\ UNCHANGED <<gwVars, stVars>>

\* reader.onloadend, which fires after a read that succeeded and after one
\* that failed, reader.result being null then
ReaderLoadEnd ==
    /\ \E f \in readers, readOk \in BOOLEAN :
        /\ selectedImage' = (IF readOk THEN DataUrl(f) ELSE Null)
        /\ readers' = readers \ {f}
    /\ analysis' = NoAnalysis
    /\ UNCHANGED <<isAnalyzing, toast, history, histPending, intake, anPc, anImage, anData>>
    /\ UNCHANGED <<gwVars, stVars>>

\* the Clear button, rendered while an image is selected
Clear ==
    /\ selectedImage # Null
    /\ selectedImage' = Null
    /\ analysis' = NoAnalysis
    /\ UNCHANGED <<isAnalyzing, toast, history, histPending, readers, intake,
                   anPc, anImage, anData>>
    /\ UNCHANGED <<gwVars, stVars>>

\* the Analyze button, rendered while an image is selected and disabled
\* while isAnalyzing: handleAnalyze up to the await of the invoke
HandleAnalyze ==
    /\ selectedImage # Null
    /\ ~isAnalyzing
    /\ isAnalyzing' = TRUE
    /\ anPc' = "invoking"
    /\ anImage' = selectedImage
    /\ anData' = NoAnalysis
    /\ UNCHANGED <<selectedImage, analysis, toast, history, histPending, readers, intake>>
    /\ UNCHANGED <<gwVars, stVars>>

\* one run of the edge function on { image }: its Response
GatewayRun(image, key, reply) ==
    LET r == ServeUntilFetch([method |-> "POST",
                              body |-> [kind |-> "object", image |-> image]], key)
    IN  IF r.pc = "done" THEN r.resp ELSE ReplyResponse(reply)

\* supabase.functions.invoke: { data, error } of a Response; a status
\* outside 2xx is an error, and so is a function that cannot be reached
FunctionsInvoke(outcome) ==
    IF outcome.kind = "unreachable"
    THEN [error |-> "Failed to send a request to the Edge Function", data |-> NoAnalysis]
    ELSE IF ~Ok(outcome.resp.status)
    THEN [error |-> "Edge Function returned a non-2xx status code", data |-> NoAnalysis]
    ELSE [error |-> Null, data |-> outcome.resp.body.value]

\* the provider's answers taken up on the page
ShellPayloads ==
    {[crop_type |-> "Tomato", defects |-> <<Defect>>, severity |-> "High",
      confidence_score |-> 92500, recommendations |-> "Remove affected leaves"],
     [crop_type |-> "Wheat", defects |-> <<>>, confidence_score |-> 85555,
      recommendations |-> "Remove affected leaves"]}

ShellReplies ==
    {[kind |-> "rejected"],
     [kind |-> "http", status |-> 429, body |-> [kind |-> "text"]],
     [kind |-> "http", status |-> 200,
      body |-> [kind |-> "json", toolCall |-> [kind |-> "none"]]]}
        \cup {[kind |-> "http", status |-> 200,
               body |-> [kind |-> "json",
                         toolCall |-> [kind |-> "call",
                                       arguments |-> [kind |-> "json", value |-> v]]]] :
                 v \in ShellPayloads}

\* the catch and finally blocks of handleAnalyze
AnalyzeFailed ==
    /\ toast' = "Analysis Failed"
    /\ isAnalyzing' = FALSE
    /\ anPc' = "idle"
    /\ anImage' = Null

\* the invoke returns: if (error) throw error; setAnalysis(data); and the
\* insert leaves
InvokeReturns ==
    /\ anPc = "invoking"
    /\ \E outcome \in {[kind |-> "unreachable"]}
                       \cup {[kind |-> "response", resp |-> GatewayRun(anImage, gwKey, reply)] :
                                reply \in ShellReplies} :
        LET r == FunctionsInvoke(outcome) IN
        IF r.error # Null
        THEN /\ AnalyzeFailed
             /\ UNCHANGED <<analysis, anData>>
        ELSE /\ analysis' = r.data
             /\ anData' = r.data
             /\ anPc' = "inserting"
             /\ UNCHANGED <<isAnalyzing, toast, anImage>>
    /\ UNCHANGED <<selectedImage, history, histPending, readers, intake>>
    /\ UNCHANGED <<gwVars, stVars>>

\* the columns handleAnalyze inserts; JSON leaves an undefined one out
InsertPayload(data) == Restrict(data, (DOMAIN data) \cap NotNullColumns)

\* after the awaited insert: refetch(), the toast, finally. The toast's
\* description calls data.severity.toLowerCase(), which throws on undefined
AfterInsert ==
    /\ histPending' = TRUE
    /\ toast' = (IF "severity" \in DOMAIN anData THEN "Analysis Complete"
                 ELSE "Analysis Failed")
    /\ isAnalyzing' = FALSE
    /\ anPc' = "idle"
    /\ anImage' = Null

\* handleAnalyze with a catch block that also takes the analysis down
InsertReturns_ClearOnFailure ==
    /\ anPc = "inserting"
    /\ \/ /\ Cardinality(table) < MaxPageRows
          /\ \E id \in UUIDs :
                table' = ExecInsert(table, InsertPayload(anData), id, now).rows
          /\ AfterInsert
          /\ analysis' = (IF toast' = "Analysis Failed" THEN NoAnalysis ELSE analysis)
       \/ /\ UNCHANGED table
          /\ AfterInsert
          /\ analysis' = (IF toast' = "Analysis Failed" THEN NoAnalysis ELSE analysis)
       \/ /\ UNCHANGED <<table, histPending>>
          /\ AnalyzeFailed
          /\ analysis' = NoAnalysis
    /\ UNCHANGED <<selectedImage, history, readers, intake, anData>>
    /\ UNCHANGED <<gwVars, now, stCall, qResult, qLimit>>

\* the awaited insert settles: the database ran it (its error, if any, is
\* in the result nobody reads), it could not be reached, or the call threw
InsertReturns ==
    /\ anPc = "inserting"
    /\ \/ /\ Cardinality(table) < MaxPageRows
          /\ \E id \in UUIDs :
                table' = ExecInsert(table, InsertPayload(anData), id, now).rows
          /\ AfterInsert
       \/ /\ UNCHANGED table
          /\ AfterInsert
       \/ /\ UNCHANGED <<table, histPending>>
          /\ AnalyzeFailed
    /\ UNCHANGED <<selectedImage, analysis, history, readers, intake, anData>>
    /\ UNCHANGED <<gwVars, now, stCall, qResult, qLimit>>

\* the history query settles: its rows, or an error that leaves the data
HistoryLoaded ==
    /\ histPending
    /\ histPending' = FALSE
    /\ \/ history' \in ListRecent(table, QueryLimit)
       \/ UNCHANGED history
    /\ UNCHANGED <<selectedImage, isAnalyzing, analysis, toast, readers, intake,
                   anPc, anImage, anData>>
    /\ UNCHANGED <<gwVars, stVars>>

ShInit ==
    /\ selectedImage = Null
    /\ isAnalyzing = FALSE
    /\ analysis = NoAnalysis
    /\ toast = "none"
    /\ history = <<>>
    /\ histPending = TRUE
    /\ readers = {}
    /\ intake = NoIntake
    /\ anPc = "idle"
    /\ anImage = Null
    /\ anData = NoAnalysis

ShNext ==
    \/ HandleImageSelect
    \/ HandleDrop
    \/ ReaderLoadEnd
    \/ Clear
    \/ HandleAnalyze
    \/ InvokeReturns
    \/ InsertReturns
    \/ HistoryLoaded

StoreInit == GwIdle /\ gwKey = Undefined /\ StInit /\ ShInit

SpecStore == StoreInit /\ [][StNext]_vars

ShellInit == GwIdle /\ gwKey = "sk-key" /\ StInit /\ ShInit

SpecShell == ShellInit /\ [][ShNext]_vars

(***************************************************************************)
(* Properties of the Result Store                                          *)
(***************************************************************************)
Range(s) == {s[i] : i \in 1..Len(s)}

DistinctTimes(rows) ==
    \A r1 \in rows, r2 \in rows : r1 # r2 => r1.created_at # r2.created_at

\* s lists the k most recently created rows, or all of them when there are
\* fewer, the most recent first
MostRecent(rows, k, s) ==
    /\ Len(s) = (IF k < Cardinality(rows) THEN k ELSE Cardinality(rows))
    /\ Range(s) \subseteq rows
    /\ \A i \in 1..(Len(s) - 1) : s[i].created_at > s[i + 1].created_at
    /\ \A r \in rows \ Range(s), x \in Range(s) : r.created_at < x.created_at

\* C8: over records with distinct createdAt, listRecent(k) is exactly the k
\* records with the largest createdAt in strictly descending order, and all
\* N records in that order when k > N.
C8_ListRecent ==
    DistinctTimes(table) =>
        \A k \in 0..QueryLimit :
            /\ ListRecent(table, k) # {}
            /\ \A s \in ListRecent(table, k) : MostRecent(table, k, s)

C8_Witness ==
    /\ Cardinality(table) = 2
    /\ DistinctTimes(table)
    /\ qLimit = 1
    /\ qResult \in ListRecent(table, 1)
    /\ Len(qResult) = 1
    /\ \A r \in table : r.created_at <= qResult[1].created_at

\* client c's insert is executed and answered without an error
Inserted(c) ==
    /\ stCall[c].kind = "pending"
    /\ stCall'[c].kind = "answered"
    /\ stCall'[c].code = "ok"

\* id and createdAt are populated
Populated(row) ==
    /\ row.id \in UUIDs
    /\ row.created_at \in 0..MaxTime + 1

\* an AnalysisResult's persisted fields, confidence within [0, 100]
InRange(p) ==
    /\ NotNullColumns \subseteq DOMAIN p
    /\ p.confidence_score >= ConfidenceMin * 1000
    /\ p.confidence_score <= ConfidenceMax * 1000

\* C9 as stated: insert(r) immediately followed by listRecent(1) gives a
\* record with r's cropType, defects, severity and confidenceScore
\* verbatim, for every confidenceScore in [0, 100], id and createdAt
\* populated.
C9_RoundTripVerbatim ==
    [][\A c \in Clients :
          (Inserted(c) /\ InRange(stCall[c].payload)) =>
              \A s \in ListRecent(table', 1) :
                  /\ Len(s) = 1
                  /\ Populated(s[1])
                  /\ s[1].crop_type = stCall[c].payload.crop_type
                  /\ s[1].defects = stCall[c].payload.defects
                  /\ s[1].severity = stCall[c].payload.severity
                  /\ s[1].confidence_score * 10 = stCall[c].payload.confidence_score]_vars

\* C9, amended: when the new record's createdAt is later than every other
\* record's, insert(r) immediately followed by listRecent(1) gives the new
\* record, with r's cropType, defects and severity verbatim, id and
\* createdAt populated, and r's confidenceScore rounded to two fractional
\* digits (ties away from zero): verbatim exactly when r's score has at
\* most two fractional digits.
C9_RoundTrip ==
    [][\A c \in Clients :
          (/\ Inserted(c)
           /\ InRange(stCall[c].payload)
           /\ \A r \in table : r.created_at < now) =>
              \A s \in ListRecent(table', 1) :
                  /\ Len(s) = 1
                  /\ s[1] \notin table
                  /\ Populated(s[1])
                  /\ s[1].created_at = now
                  /\ s[1].crop_type = stCall[c].payload.crop_type
                  /\ s[1].defects = stCall[c].payload.defects
                  /\ s[1].severity = stCall[c].payload.severity
                  /\ s[1].confidence_score * 10 - stCall[c].payload.confidence_score
                         \in -4..5
                  /\ (s[1].confidence_score * 10 = stCall[c].payload.confidence_score)
                         <=> (stCall[c].payload.confidence_score % 10 = 0)]_vars

\* a score with three fractional digits was inserted and read back rounded
C9_Witness ==
    /\ \E c \in Clients : stCall[c].kind = "answered" /\ stCall[c].code = "ok"
    /\ qLimit = 1
    /\ Len(qResult) = 1
    /\ qResult \in ListRecent(table, 1)
    /\ qResult[1].crop_type = "Wheat"
    /\ qResult[1].confidence_score = 8556

\* a row with every column of the table but image_url holding a value
Complete(row) ==
    /\ DOMAIN row = Columns \ {"image_url"}
    /\ row.id \in UUIDs
    /\ row.created_at \in 0..now

\* C10: whatever the interleaving of the inserts, the records have distinct
\* ids, each insert that succeeds adds exactly one record and leaves the
\* others as they were, no step removes or changes a record, listRecent(N)
\* over N records holds them all, and a query sees complete records only.
C10_ConcurrentInserts ==
    /\ [](/\ \A r1 \in table, r2 \in table : r1.id = r2.id => r1 = r2
          /\ \A r \in table : Complete(r)
          /\ \A i \in 1..Len(qResult) : Complete(qResult[i]) /\ qResult[i] \in table
          /\ \A s \in ListRecent(table, Cardinality(table)) : Range(s) = table)
    /\ [][/\ table \subseteq table'
          /\ \A c \in Clients :
                Inserted(c) =>
                    \E row \in table' \ table :
                        /\ table' = table \cup {row}
                        /\ \A r \in table : r.id # row.id
                        /\ Complete(row)
                        /\ row.crop_type = stCall[c].payload.crop_type
                        /\ row.defects = stCall[c].payload.defects
                        /\ row.severity = stCall[c].payload.severity
          /\ \A c \in Clients :
                (stCall[c].kind = "pending" /\ stCall'[c].kind = "answered"
                     /\ stCall'[c].code # "ok") => table' = table]_vars

\* two inserts answered without error at the same instant, both listed
C10_Witness ==
    /\ \A c \in Clients : stCall[c].kind = "answered" /\ stCall[c].code = "ok"
    /\ Cardinality(table) = 2
    /\ \A r \in table : r.created_at = 0
    /\ qLimit = QueryLimit
    /\ Range(qResult) = table

\* an update or a delete of client c is answered in this step
Written(c) ==
    /\ stCall'[c].kind \in {"updated", "deleted"}
    /\ stCall'[c] # stCall[c]

\* the record is in the rows with the id and every field it has
Kept(r, rows) ==
    /\ \E r2 \in rows :
        /\ r2.id = r.id
        /\ r2.created_at = r.created_at
        /\ r2.crop_type = r.crop_type
        /\ r2.defects = r.defects
        /\ r2.severity = r.severity
        /\ r2.confidence_score = r.confidence_score
    /\ \A r2 \in rows : r2.id = r.id => r2 = r

\* C11: the store is append-only: a client's update or delete finds no row
\* it may touch, and every step, whichever operation takes it, keeps every
\* record of the table with the id, createdAt, cropType, defects, severity
\* and confidenceScore it was inserted with.
C11_AppendOnly ==
    /\ [](\A cmd \in {"UPDATE", "DELETE"} : PolicyRows(cmd, table) = {})
    /\ [][/\ \A r \in table : Kept(r, table')
          /\ \A c \in Clients :
                Written(c) => stCall'[c].count = 0 /\ table' = table]_vars

\* records are in the table, and the last call of each client is an update
\* or a delete over every id, answered with no row touched
C11_Witness ==
    /\ Cardinality(table) = 2
    /\ \E c \in Clients : stCall[c] = [kind |-> "updated", count |-> 0]
    /\ \E c \in Clients : stCall[c] = [kind |-> "deleted", count |-> 0]
    /\ qLimit = QueryLimit
    /\ Range(qResult) = table

(***************************************************************************)
(* Properties of the page                                                  *)
(***************************************************************************)
\* a call of handleImageSelect or handleDrop with a file has just returned
IntakeCalled == intake' # intake /\ intake'.file # NoFile

\* the call left the image and the analysis on display as they were
DisplayUnchanged == selectedImage' = selectedImage /\ analysis' = analysis

\* the call failed with too_large and changed nothing on display
FailedTooLarge ==
    /\ intake'.result = "too_large"
    /\ toast' = "File too large"
    /\ readers' = readers
    /\ DisplayUnchanged

\* a FileReader has just fired onloadend
ReadEnded == readers' # readers /\ readers' \subseteq readers

\* C6 as stated: every file of at most 10 MiB is read and gives a non-empty
\* encoded image; every larger file fails with too_large and leaves the
\* selected image and the analysis as they were.
C6_PrepareBySize ==
    [][/\ IntakeCalled =>
             IF intake'.file.size <= 10 * 1024 * 1024
             THEN intake'.result = "reading" /\ intake'.file \in readers'
             ELSE FailedTooLarge
       /\ ReadEnded => (selectedImage' # Null /\ Len(selectedImage') > 0)]_vars

\* C6, amended: a file picked in the file input, or dropped with an image/*
\* type, is read when its size is at most 10 MiB (the boundary included)
\* and fails with too_large, leaving the selected image and the analysis
\* as they were, when it is larger; a dropped file of any other type is
\* ignored whatever its size, with no error and no change. When the read
\* ends the analysis is cleared and the selected image is that file's
\* non-empty data URL, or null if the read failed.
C6_Prepare ==
    [][/\ IntakeCalled =>
             IF intake'.via = "drop" /\ ~IsImageType(intake'.file.type)
             THEN /\ intake'.result = "ignored"
                  /\ toast' = toast
                  /\ readers' = readers
                  /\ DisplayUnchanged
             ELSE IF intake'.file.size <= 10 * 1024 * 1024
             THEN /\ intake'.result = "reading"
                  /\ intake'.file \in readers'
                  /\ toast' = toast
                  /\ DisplayUnchanged
             ELSE FailedTooLarge
       /\ ReadEnded =>
             \E f \in readers \ readers' :
                 /\ f.size <= 10 * 1024 * 1024
                 /\ \/ selectedImage' = Null
                    \/ selectedImage' = DataUrl(f) /\ Len(selectedImage') > 0
                 /\ analysis' = NoAnalysis]_vars

\* a file of exactly 10 MiB was read and is the selected image, and a
\* larger one has just been refused while an analysis is on display
C6_Witness ==
    /\ selectedImage = "data:image/jpeg;base64,/9j/4AAQSkZJRg=="
    /\ analysis # NoAnalysis
    /\ intake.result = "too_large"
    /\ intake.file.size > 10 * 1024 * 1024
    /\ toast = "File too large"

\* C7: once analyze has returned a result it is on display before the
\* insert is awaited, and the insert's settling, whether it succeeded,
\* returned an error or threw, leaves the analysis on display as it is.
C7_DisplayDecoupled ==
    [][/\ (anPc = "invoking" /\ anPc' = "inserting") =>
             analysis' = anData'
       /\ (anPc = "inserting" /\ anPc' # "inserting") => analysis' = analysis]_vars

\* the insert threw, nothing was stored, and the result is on display
C7_Witness ==
    /\ anPc = "idle"
    /\ anData # NoAnalysis
    /\ "severity" \in DOMAIN anData
    /\ toast = "Analysis Failed"
    /\ table = {}
    /\ analysis = anData

\* setAnalysis(data) of the handleAnalyze in flight runs in this step
AnalysisSet == anPc = "invoking" /\ anPc' = "inserting"

\* C12: an analysis on display was computed from the image selected: when
\* handleAnalyze puts its result on display the selected image is the one it
\* sent, and an analysis stays on display only while the selected image
\* stays the same, whatever the interleaving of the file reads' completion,
\* Clear and the completion of the handleAnalyze in flight.
C12_AnalysisOfSelected ==
    [][analysis' # NoAnalysis =>
          IF AnalysisSet
          THEN selectedImage' # Null /\ selectedImage' = anImage
          ELSE analysis' = analysis /\ selectedImage' = selectedImage]_vars

GatewayInit == GwInit /\ StInit /\ ShInit

SpecGateway == GatewayInit /\ [][GwNext]_vars

\* the three components together, each taking its steps
Init == GwInit /\ StInit /\ ShInit

Next == GwNext \/ StNext \/ ShNext

Spec == Init /\ [][Next]_vars
====
